---- MODULE Spec2Model ----
(***************************************************************************)
(* Pipeline orchestrator of CasterAgent: GenerateDailyVideo.execute        *)
(* (src/src/ai_daily2video/application/use_cases/generate_daily_video.py). *)
(* One execute call is a frame r; every collaborator call of the method is *)
(* one action, which either returns or raises.  The calls a frame makes    *)
(* are recorded, in order, in trace[r].                                     *)
(***************************************************************************)
EXTENDS Integers, Sequences, FiniteSets, TLC

\* ------------------------------------------------------------------ bounds
MaxRuns == 2
MaxArticleId == 2

Runs == 1..MaxRuns
ArticleIds == 1..MaxArticleId

\* ------------------------------------------------------------ Optional[T]
None == <<>>
Some(x) == <<x>>
IsNone(o) == o = None
Val(o) == o[1]

\* Python truthiness of an Optional[int] / Optional[str].
TruthyInt(o) == o # None /\ Val(o) # 0
TruthyStr(o) == o # None /\ Val(o) # ""

\* ------------------------------------------------------------- the inputs
\* GenerateDailyVideoInput.article_id: Optional[int] = None
CommandIds == {None} \cup {Some(i) : i \in 0..MaxArticleId}
\* VideoPublisher.publish -> str | None
PublishIds == {None, Some(""), Some("youtube-video-id")}
Outcomes == {"ok", "raise"}

\* The article source wired into the orchestrator: the test double or the
\* shipped esa.io client.
Sources == {"FakeArticleRepo", "EsaRestClient"}

VARIABLES
  repo,      \* the article the article source holds (FakeArticleRepo._article)
  source,    \* the ArticleRepository implementation injected as article_repo
  clock,     \* datetime.utcnow(), as a logical clock
  pc,        \* pc[r]: position of frame r in execute
  command,   \* command[r]: the article_id of the command
  status,    \* status[r]: the PipelineStatus of the frame
  frame,     \* frame[r]: the locals article, script, ..., youtube_video_id
  exc,       \* exc[r]: the exception in flight / propagated to the caller
  caught,    \* caught[r]: the exception bound by `except Exception as exc`
  result,    \* result[r]: the GenerateDailyVideoResult returned
  trace,     \* trace[r]: every collaborator call of the frame, in order
  raises,    \* raises[r]: every exception raised during the frame, in order
  response,  \* response[r]: what trigger_pipeline answered for the frame
  wiring,    \* the collaborators build_pipeline_use_case wired, and its inputs
  composer,  \* the locals of one HedraVideoComposer.compose call
  subtitler  \* the locals of one OpenAISubtitleService.generate_subtitles call

vars ==
  <<repo, source, clock, pc, command, status, frame, exc, caught, result, trace,
    raises, response, wiring, composer, subtitler>>

\* ------------------------------------------------------------ domain model
\* PipelineStatus(status=..., started_at=...): completed_at None, notes [].
PipelineStatus(label, t) ==
  [status |-> label, started_at |-> t, completed_at |-> None, notes |-> <<>>]

NoStatus == [status |-> "", started_at |-> 0, completed_at |-> None, notes |-> <<>>]

\* PipelineError(step, message): str() is "Pipeline step '<step>' failed: <message>".
PipelineError(step, message) ==
  [type |-> "PipelineError", step |-> step,
   msg |-> "Pipeline step '" \o step \o "' failed: " \o message]

\* An exception raised by the collaborator call `site`.
CollaboratorError(site) ==
  [type |-> "Exception", step |-> "", msg |-> site \o " raised"]

NoFrame ==
  [article |-> None, script |-> None, audio |-> None, subtitles |-> None,
   background |-> None, metadata |-> None, video |-> None,
   youtube_video_id |-> None]

\* A value returned by a stage collaborator for the article `a`.
Artifact(kind, a) == [kind |-> kind, article_id |-> a]

Call(op, arg, info, n) == [op |-> op, arg |-> arg, info |-> info, n |-> n]

\* -------------------------------------------------------- article source
\* FakeArticleRepo.latest / by_id
Latest == repo
ById(article_id) ==
  IF repo # None /\ Val(repo) = article_id THEN repo ELSE None

\* requests' HTTPError, raised by response.raise_for_status() in
\* EsaRestClient._request for a 4xx / 5xx answer.
HTTPError(code) ==
  [type |-> "HTTPError", step |-> "", msg |-> code \o " Client Error"]

\* What a lookup of the article source can return.  EsaRestClient.by_id
\* returns None only for an empty JSON body; latest returns None when no
\* post is listed.
LookupReturns(op, article_id) ==
  IF op = "latest" THEN {Latest} ELSE {ById(article_id)}

\* What a lookup of the article source can raise.  EsaRestClient._request
\* raises HTTPError when esa.io answers 404 for a post that does not exist.
LookupRaises(op, article_id) ==
  {CollaboratorError(op)}
    \cup (IF source = "EsaRestClient" /\ op = "by_id" /\ ById(article_id) = None
          THEN {HTTPError("404")} ELSE {})

\* ------------------------------------------------------------- assembly
\* AppSettings.google_application_credentials / hedra_api_key: str, default "".
CredentialSettings == {"", "service-account.json"}
ApiKeySettings == {"", "hedra-api-key"}
NonEmpty(s) == s # ""

\* The collaborators the tests inject: doubles that may return or raise anything.
TestWiring ==
  [state |-> "built",
   settings |-> [google_application_credentials |-> "", hedra_api_key |-> ""],
   video_composer |-> "FakeVideoComposer", publisher |-> "FakePublisher",
   constructed |-> {}, unavailable |-> {}, events |-> <<>>]

\* Before build_pipeline_use_case has run, under the given settings.
Unbuilt(settings) ==
  [state |-> "unbuilt", settings |-> settings,
   video_composer |-> "", publisher |-> "",
   constructed |-> {}, unavailable |-> {}, events |-> <<>>]

\* The outcome of a builder: the collaborator returned (None if the builder
\* raised), the class whose constructor ran, whether it raised, the event logged.
Built(value, class, ok, events) ==
  [value |-> value,
   constructed |-> IF class # "" /\ ok THEN {class} ELSE {},
   unavailable |-> IF class # "" /\ ~ok THEN {class} ELSE {},
   events |-> events]

\* _build_video_composer: `ok` is whether HedraClient(...) and
\* HedraVideoComposer(client) return, `logged` whether logger.log returns.
BuildVideoComposer(settings, ok, logged) ==
  IF NonEmpty(settings.hedra_api_key)
  THEN IF ok THEN Built(Some("HedraVideoComposer"), "HedraVideoComposer", TRUE, <<>>)
       ELSE IF logged
            THEN Built(Some("MoviePyVideoComposer"), "HedraVideoComposer", FALSE,
                       <<"hedra_unavailable">>)
            ELSE Built(None, "HedraVideoComposer", FALSE, <<"hedra_unavailable">>)
  ELSE Built(Some("MoviePyVideoComposer"), "", TRUE, <<>>)

\* Mutant of BuildPublisher: the YouTube publisher is wired whatever the
\* credentials setting.
BuildPublisher_IgnoresCredentials(settings, ok, logged) ==
  IF ok THEN Built(Some("YouTubePublisher"), "YouTubePublisher", TRUE, <<>>)
  ELSE IF logged
       THEN Built(Some("NoOpPublisher"), "YouTubePublisher", FALSE,
                  <<"youtube_publisher_unavailable">>)
       ELSE Built(None, "YouTubePublisher", FALSE, <<"youtube_publisher_unavailable">>)

\* _build_publisher: `ok` is whether YouTubePublisher() returns, `logged`
\* whether logger.log returns.
BuildPublisher(settings, ok, logged) ==
  IF NonEmpty(settings.google_application_credentials)
  THEN IF ok THEN Built(Some("YouTubePublisher"), "YouTubePublisher", TRUE, <<>>)
       ELSE IF logged
            THEN Built(Some("NoOpPublisher"), "YouTubePublisher", FALSE,
                       <<"youtube_publisher_unavailable">>)
            ELSE Built(None, "YouTubePublisher", FALSE, <<"youtube_publisher_unavailable">>)
  ELSE Built(Some("NoOpPublisher"), "", TRUE, <<>>)

\* What the wired publisher can return: NoOpPublisher.publish returns None.
PublishReturns ==
  IF wiring.publisher = "NoOpPublisher" THEN {None} ELSE PublishIds
\* NoOpPublisher.publish only writes to the standard logging module.
PublishMayRaise == wiring.publisher # "NoOpPublisher"

\* ------------------------------------------------------------ projections
RECURSIVE SelectOp(_, _)
SelectOp(s, ops) ==
  IF s = <<>> THEN <<>>
  ELSE IF Head(s).op \in ops THEN <<Head(s)>> \o SelectOp(Tail(s), ops)
       ELSE SelectOp(Tail(s), ops)

Events(r) == [i \in 1..Len(SelectOp(trace[r], {"log"})) |->
                SelectOp(trace[r], {"log"})[i].arg]
Notifications(r) == SelectOp(trace[r], {"notify"})
CountOp(r, op) == Len(SelectOp(trace[r], {op}))
CountEvent(r, e) == Cardinality({i \in 1..Len(Events(r)) : Events(r)[i] = e})

\* The collaborator internals at rest (no call in progress).
NoCompose ==
  [pc |-> "idle", article_id |-> 0, audio_path |-> "", avatar_id |-> "",
   poll_interval |-> 0, calls |-> <<>>, returns |-> 0, audio_asset_id |-> "",
   generation_id |-> "", now |-> 0, deadline |-> 0, fetched |-> None,
   waited |-> "", error |-> None, video |-> None]
NoSubtitles ==
  [pc |-> "idle", chunks |-> <<>>, lines |-> <<>>, duration |-> 0,
   segments |-> <<>>, unit |-> 1]

\* ---------------------------------------------------------------- Init
Init ==
  /\ repo \in {None} \cup {Some(a) : a \in ArticleIds}
  /\ source \in Sources
  /\ clock = 0
  /\ pc = [r \in Runs |-> "idle"]
  /\ command = [r \in Runs |-> None]
  /\ status = [r \in Runs |-> NoStatus]
  /\ frame = [r \in Runs |-> NoFrame]
  /\ exc = [r \in Runs |-> None]
  /\ caught = [r \in Runs |-> None]
  /\ result = [r \in Runs |-> None]
  /\ trace = [r \in Runs |-> <<>>]
  /\ raises = [r \in Runs |-> <<>>]
  /\ response = [r \in Runs |-> None]
  /\ wiring = TestWiring
  /\ composer = NoCompose
  /\ subtitler = NoSubtitles


\* ------------------------------------------------------------- helpers
Set(f, r, v) == [f EXCEPT ![r] = v]
SetLabel(r, label) == Set(status, r, [status[r] EXCEPT !.status = label])
Invoke(r, call) == Set(trace, r, Append(trace[r], call))
Finished == {"returned", "raised"}

\* The call returned: no exception is in flight.
Returned == UNCHANGED <<exc, raises>>

\* A raise inside the try block: control goes to the except clause.
RaiseInTry(r, e) ==
  /\ exc' = Set(exc, r, Some(e))
  /\ raises' = Set(raises, r, Append(raises[r], e))
  /\ pc' = Set(pc, r, "except")

\* A raise outside the try block, or inside the except clause: the exception
\* leaves execute.
RaiseOut(r, e) ==
  /\ exc' = Set(exc, r, Some(e))
  /\ raises' = Set(raises, r, Append(raises[r], e))
  /\ pc' = Set(pc, r, "raised")

\* self._logger.log({"event": event, ...}) inside the try block.
LogInTry(r, at, event, info, next) ==
  /\ pc[r] = at
  /\ trace' = Invoke(r, Call("log", event, info, 0))
  /\ \E o \in Outcomes:
       \/ /\ o = "ok"
          /\ pc' = Set(pc, r, next)
          /\ Returned
       \/ /\ o = "raise"
          /\ RaiseInTry(r, CollaboratorError("log " \o event))
  /\ UNCHANGED <<repo, source, wiring, composer, subtitler, response, clock, command, status, frame, caught, result>>

\* Mutant of Stage: the label is set before the collaborator is called, so it
\* is set also when the call raises.
Stage_LabelFirst(r, at, op, newFrame, label, next) ==
  /\ pc[r] = at
  /\ trace' = Invoke(r, Call(op, "", "", 0))
  /\ status' = SetLabel(r, label)
  /\ \E o \in Outcomes:
       \/ /\ o = "ok"
          /\ frame' = Set(frame, r, newFrame)
          /\ pc' = Set(pc, r, next)
          /\ Returned
       \/ /\ o = "raise"
          /\ RaiseInTry(r, CollaboratorError(op))
          /\ UNCHANGED frame
  /\ UNCHANGED <<repo, source, wiring, composer, subtitler, response, clock, command, caught, result>>

\* x = collaborator.op(...); status.status = label
Stage(r, at, op, newFrame, label, next) ==
  /\ pc[r] = at
  /\ trace' = Invoke(r, Call(op, "", "", 0))
  /\ \E o \in Outcomes:
       \/ /\ o = "ok"
          /\ frame' = Set(frame, r, newFrame)
          /\ status' = SetLabel(r, label)
          /\ pc' = Set(pc, r, next)
          /\ Returned
       \/ /\ o = "raise"
          /\ RaiseInTry(r, CollaboratorError(op))
          /\ UNCHANGED <<frame, status>>
  /\ UNCHANGED <<repo, source, wiring, composer, subtitler, response, clock, command, caught, result>>

\* ------------------------------------------------------------- execute
\* Mutant of Execute: the status record is kept on the orchestrator and
\* reused by the next call instead of being created afresh.
Execute_ReusesStatus(r, article_id) ==
  /\ pc[r] = "idle"
  /\ wiring.state = "built"
  /\ \A q \in Runs : q < r => pc[q] \in Finished \cup {"released"}
  /\ clock' = clock + 1
  /\ pc' = [q \in Runs |-> IF q = r THEN "log_started"
                            ELSE IF q < r THEN "released" ELSE pc[q]]
  /\ command' = [q \in Runs |-> IF q = r THEN article_id ELSE None]
  /\ status' = [q \in Runs |->
                  IF q = r
                  THEN IF r > 1 /\ pc[r - 1] \in Finished
                       THEN [status[r - 1] EXCEPT !.status = "started"]
                       ELSE PipelineStatus("started", clock')
                  ELSE NoStatus]
  /\ frame' = [q \in Runs |-> NoFrame]
  /\ exc' = [q \in Runs |-> None]
  /\ caught' = [q \in Runs |-> None]
  /\ result' = [q \in Runs |-> None]
  /\ trace' = [q \in Runs |-> <<>>]
  /\ raises' = [q \in Runs |-> <<>>]
  /\ response' = [q \in Runs |-> None]
  /\ UNCHANGED <<repo, source, wiring, composer, subtitler>>

\* line 66: a new call of execute on the orchestrator.  Calls are made one
\* after the other; the frames of the calls that ended are released.
Execute(r, article_id) ==
  /\ pc[r] = "idle"
  /\ wiring.state = "built"
  /\ \A q \in Runs : q < r => pc[q] \in Finished \cup {"released"}
  /\ clock' = clock + 1
  /\ pc' = [q \in Runs |-> IF q = r THEN "log_started"
                            ELSE IF q < r THEN "released" ELSE pc[q]]
  /\ command' = [q \in Runs |-> IF q = r THEN article_id ELSE None]
  /\ status' = [q \in Runs |-> IF q = r THEN PipelineStatus("started", clock')
                                ELSE NoStatus]
  /\ frame' = [q \in Runs |-> NoFrame]
  /\ exc' = [q \in Runs |-> None]
  /\ caught' = [q \in Runs |-> None]
  /\ result' = [q \in Runs |-> None]
  /\ trace' = [q \in Runs |-> <<>>]
  /\ raises' = [q \in Runs |-> <<>>]
  /\ response' = [q \in Runs |-> None]
  /\ UNCHANGED <<repo, source, wiring, composer, subtitler>>

\* line 67: the pipeline_started event, logged before the try block.
LogStarted(r) ==
  /\ pc[r] = "log_started"
  /\ trace' = Invoke(r, Call("log", "pipeline_started", "", 0))
  /\ \E o \in Outcomes:
       \/ /\ o = "ok"
          /\ pc' = Set(pc, r, "resolve")
          /\ Returned
       \/ /\ o = "raise"
          /\ RaiseOut(r, CollaboratorError("log pipeline_started"))
  /\ UNCHANGED <<repo, source, wiring, composer, subtitler, response, clock, command, status, frame, caught, result>>

\* lines 69-70 and _resolve_article (119-123).
ResolveArticle(r) ==
  /\ pc[r] = "resolve"
  /\ LET byId == TruthyInt(command[r])
         op == IF byId THEN "by_id" ELSE "latest"
         n == IF byId THEN Val(command[r]) ELSE 0
     IN /\ trace' = Invoke(r, Call(op, "", "", n))
        /\ \/ \E article \in LookupReturns(op, n):
                /\ article # None
                /\ frame' = Set(frame, r, [frame[r] EXCEPT !.article = article])
                /\ status' = SetLabel(r, "article_ready")
                /\ pc' = Set(pc, r, "log_article")
                /\ Returned
           \/ \E article \in LookupReturns(op, n):
                /\ article = None
                /\ RaiseInTry(r, PipelineError("article", "article not found"))
                /\ UNCHANGED <<frame, status>>
           \/ \E e \in LookupRaises(op, n):
                /\ RaiseInTry(r, e)
                /\ UNCHANGED <<frame, status>>
  /\ UNCHANGED <<repo, source, wiring, composer, subtitler, response, clock, command, caught, result>>

LogArticle(r) == LogInTry(r, "log_article", "article_selected", "", "script")

BuildScript(r) ==
  Stage(r, "script", "build_script",
        [frame[r] EXCEPT !.script = Some(Artifact("script", Val(frame[r].article)))],
        "script_ready", "log_script")

LogScript(r) == LogInTry(r, "log_script", "script_generated", "", "audio")

Synthesize(r) ==
  Stage(r, "audio", "synthesize",
        [frame[r] EXCEPT !.audio = Some(Artifact("audio", Val(frame[r].script).article_id))],
        "audio_ready", "log_audio")

LogAudio(r) == LogInTry(r, "log_audio", "audio_generated", "", "subtitles")

GenerateSubtitles(r) ==
  Stage(r, "subtitles", "generate_subtitles",
        [frame[r] EXCEPT !.subtitles = Some(Artifact("subtitles", Val(frame[r].script).article_id))],
        "subtitles_ready", "log_subtitles")

\* Mutant of LogSubtitles: control goes on to the metadata stage, skipping
\* the background stage.
LogSubtitles_SkipsBackground(r) ==
  LogInTry(r, "log_subtitles", "subtitles_generated", "", "metadata")

LogSubtitles(r) == LogInTry(r, "log_subtitles", "subtitles_generated", "", "background")

CreateImage(r) ==
  Stage(r, "background", "create_image",
        [frame[r] EXCEPT !.background = Some(Artifact("background", Val(frame[r].article)))],
        "background_ready", "log_background")

LogBackground(r) == LogInTry(r, "log_background", "background_generated", "", "metadata")

\* Mutant of BuildMetadata: the label of the previous stage, copied.
BuildMetadata_WrongLabel(r) ==
  Stage(r, "metadata", "build_metadata",
        [frame[r] EXCEPT !.metadata = Some(Artifact("metadata", Val(frame[r].article)))],
        "background_ready", "log_metadata")

BuildMetadata(r) ==
  Stage(r, "metadata", "build_metadata",
        [frame[r] EXCEPT !.metadata = Some(Artifact("metadata", Val(frame[r].article)))],
        "metadata_ready", "log_metadata")

LogMetadata(r) == LogInTry(r, "log_metadata", "metadata_generated", "", "compose")

Compose(r) ==
  Stage(r, "compose", "compose",
        [frame[r] EXCEPT !.video = Some(Artifact("video", Val(frame[r].audio).article_id))],
        "video_ready", "log_video")

LogVideo(r) == LogInTry(r, "log_video", "video_composed", "", "publish")

\* Mutant of PublishLabel: `is not None` instead of truthiness.
PublishLabel_NotNone(id) == IF id # None THEN "uploaded" ELSE "video_saved"

\* The status label the publish fork sets for the id the publisher returned.
PublishLabel(id) == IF TruthyStr(id) THEN "uploaded" ELSE "video_saved"

\* Mutant of Publish: a publish call that raised is tried again.
Publish_Retry(r) ==
  /\ pc[r] = "publish"
  /\ trace' = Invoke(r, Call("publish", "", "", 0))
  /\ \/ \E id \in PublishReturns:
          /\ frame' = Set(frame, r, [frame[r] EXCEPT !.youtube_video_id = id])
          /\ status' = SetLabel(r, IF TruthyStr(id) THEN "uploaded" ELSE "video_saved")
          /\ pc' = Set(pc, r, IF TruthyStr(id) THEN "log_uploaded" ELSE "finish")
          /\ Returned
     \/ /\ PublishMayRaise
        /\ CountOp(r, "publish") = 0
        /\ UNCHANGED <<frame, status, pc, exc, raises>>
     \/ /\ PublishMayRaise
        /\ CountOp(r, "publish") > 0
        /\ RaiseInTry(r, CollaboratorError("publish"))
        /\ UNCHANGED <<frame, status>>
  /\ UNCHANGED <<repo, source, wiring, composer, subtitler, response, clock, command, caught, result>>

\* lines 97-102 without the log call of line 100.
Publish(r) ==
  /\ pc[r] = "publish"
  /\ trace' = Invoke(r, Call("publish", "", "", 0))
  /\ \/ \E id \in PublishReturns:
          /\ frame' = Set(frame, r, [frame[r] EXCEPT !.youtube_video_id = id])
          /\ status' = SetLabel(r, PublishLabel(id))
          /\ pc' = Set(pc, r, IF TruthyStr(id) THEN "log_uploaded" ELSE "finish")
          /\ Returned
     \/ /\ PublishMayRaise
        /\ RaiseInTry(r, CollaboratorError("publish"))
        /\ UNCHANGED <<frame, status>>
  /\ UNCHANGED <<repo, source, wiring, composer, subtitler, response, clock, command, caught, result>>

\* line 100
LogUploaded(r) ==
  LogInTry(r, "log_uploaded", "video_uploaded", Val(frame[r].youtube_video_id), "finish")

\* Mutant of Complete: the result is built without the publish id.
Complete_DropsId(r) ==
  /\ pc[r] = "finish"
  /\ clock' = clock + 1
  /\ status' = Set(status, r, [status[r] EXCEPT !.completed_at = Some(clock')])
  /\ trace' = Invoke(r, Call("notify", "info", status[r].status, 0))
  /\ \E o \in Outcomes:
       \/ /\ o = "ok"
          /\ result' = Set(result, r,
               Some([status |-> status'[r], video |-> frame[r].video,
                     metadata |-> frame[r].metadata,
                     youtube_video_id |-> None]))
          /\ pc' = Set(pc, r, "returned")
          /\ Returned
       \/ /\ o = "raise"
          /\ RaiseInTry(r, CollaboratorError("notify info"))
          /\ result' = result
  /\ UNCHANGED <<repo, source, wiring, composer, subtitler, response, command, frame, caught>>

\* Mutant of Complete: the completion time is not stamped.
Complete_NoStamp(r) ==
  /\ pc[r] = "finish"
  /\ clock' = clock + 1
  /\ status' = status
  /\ trace' = Invoke(r, Call("notify", "info", status[r].status, 0))
  /\ \E o \in Outcomes:
       \/ /\ o = "ok"
          /\ result' = Set(result, r,
               Some([status |-> status'[r], video |-> frame[r].video,
                     metadata |-> frame[r].metadata,
                     youtube_video_id |-> frame[r].youtube_video_id]))
          /\ pc' = Set(pc, r, "returned")
          /\ Returned
       \/ /\ o = "raise"
          /\ RaiseInTry(r, CollaboratorError("notify info"))
          /\ result' = result
  /\ UNCHANGED <<repo, source, wiring, composer, subtitler, response, command, frame, caught>>

\* lines 104-106: stamp the completion time, notify, return the result.
Complete(r) ==
  /\ pc[r] = "finish"
  /\ clock' = clock + 1
  /\ status' = Set(status, r, [status[r] EXCEPT !.completed_at = Some(clock')])
  /\ trace' = Invoke(r, Call("notify", "info", status[r].status, 0))
  /\ \E o \in Outcomes:
       \/ /\ o = "ok"
          /\ result' = Set(result, r,
               Some([status |-> status'[r], video |-> frame[r].video,
                     metadata |-> frame[r].metadata,
                     youtube_video_id |-> frame[r].youtube_video_id]))
          /\ pc' = Set(pc, r, "returned")
          /\ Returned
       \/ /\ o = "raise"
          /\ RaiseInTry(r, CollaboratorError("notify info"))
          /\ result' = result
  /\ UNCHANGED <<repo, source, wiring, composer, subtitler, response, command, frame, caught>>

\* Mutant of Catch: the message is not appended to the notes.
Catch_NoNotes(r) ==
  /\ pc[r] = "except"
  /\ caught' = Set(caught, r, exc[r])
  /\ clock' = clock + 1
  /\ status' = Set(status, r,
       [status[r] EXCEPT !.status = "failed", !.completed_at = Some(clock')])
  /\ pc' = Set(pc, r, "log_failed")
  /\ UNCHANGED <<repo, source, wiring, composer, subtitler, response, command, frame, exc, result, trace, raises>>

\* lines 107-110: except Exception as exc.
Catch(r) ==
  /\ pc[r] = "except"
  /\ caught' = Set(caught, r, exc[r])
  /\ clock' = clock + 1
  /\ status' = Set(status, r,
       [status[r] EXCEPT !.status = "failed",
                         !.completed_at = Some(clock'),
                         !.notes = Append(@, Val(exc[r]).msg)])
  /\ pc' = Set(pc, r, "log_failed")
  /\ UNCHANGED <<repo, source, wiring, composer, subtitler, response, command, frame, exc, result, trace, raises>>

\* line 111
LogFailed(r) ==
  /\ pc[r] = "log_failed"
  /\ trace' = Invoke(r, Call("log", "pipeline_failed", Val(caught[r]).msg, 0))
  /\ \E o \in Outcomes:
       \/ /\ o = "ok"
          /\ pc' = Set(pc, r, "notify_error")
          /\ Returned
       \/ /\ o = "raise"
          /\ RaiseOut(r, CollaboratorError("log pipeline_failed"))
  /\ UNCHANGED <<repo, source, wiring, composer, subtitler, response, clock, command, status, frame, caught, result>>

\* Mutant of NotifyError: the notification carries a fixed text instead of
\* the exception's message.
NotifyError_FixedText(r) ==
  /\ pc[r] = "notify_error"
  /\ trace' = Invoke(r, Call("notify", "error", "pipeline failed", 0))
  /\ \E o \in Outcomes:
       \/ /\ o = "ok"
          /\ pc' = Set(pc, r, "reraise")
          /\ Returned
       \/ /\ o = "raise"
          /\ RaiseOut(r, CollaboratorError("notify error"))
  /\ UNCHANGED <<repo, source, wiring, composer, subtitler, response, clock, command, status, frame, caught, result>>

\* lines 112-116
NotifyError(r) ==
  /\ pc[r] = "notify_error"
  /\ trace' = Invoke(r, Call("notify", "error", Val(caught[r]).msg, 0))
  /\ \E o \in Outcomes:
       \/ /\ o = "ok"
          /\ pc' = Set(pc, r, "reraise")
          /\ Returned
       \/ /\ o = "raise"
          /\ RaiseOut(r, CollaboratorError("notify error"))
  /\ UNCHANGED <<repo, source, wiring, composer, subtitler, response, clock, command, status, frame, caught, result>>

\* line 117: raise
Reraise(r) ==
  /\ pc[r] = "reraise"
  /\ exc' = Set(exc, r, caught[r])
  /\ pc' = Set(pc, r, "raised")
  /\ UNCHANGED <<repo, source, wiring, composer, subtitler, response, clock, command, status, frame, caught, result, trace, raises>>

\* ------------------------------------------------------- trigger_pipeline
\* Decimal digits of a natural number, as str() / an f-string gives them.
Digit == <<"0", "1", "2", "3", "4", "5", "6", "7", "8", "9">>
RECURSIVE Str(_)
Str(n) == IF n < 10 THEN Digit[n + 1] ELSE Str(n \div 10) \o Digit[(n % 10) + 1]

\* The file a stage collaborator wrote its artifact to (<kind>/<article id>).
FilePath(artifact) == artifact.kind \o "/" \o Str(artifact.article_id)

\* HTTPException(status_code=..., detail=str(exc))
HTTPException(status_code, detail) ==
  [status_code |-> status_code, detail |-> detail]

\* PipelineResponse.from_result, answered with 200.
FromResult(res) ==
  [status_code |-> 200,
   status |-> res.status.status,
   started_at |-> res.status.started_at,
   completed_at |-> res.status.completed_at,
   notes |-> res.status.notes,
   video_path |-> IF res.video # None THEN Some(FilePath(Val(res.video))) ELSE None,
   youtube_video_id |-> res.youtube_video_id]

\* Mutant of Answer: the response is chosen by the first exception raised in
\* the run instead of the exception execute raised.
Answer_FirstRaised(r) ==
  IF pc[r] = "returned" THEN FromResult(Val(result[r]))
  ELSE IF raises[r][1].type = "PipelineError"
       THEN HTTPException(400, Val(exc[r]).msg)
       ELSE HTTPException(500, Val(exc[r]).msg)

\* lines 59-65: the except clauses of trigger_pipeline and the return.
Answer(r) ==
  IF pc[r] = "returned" THEN FromResult(Val(result[r]))
  ELSE IF Val(exc[r]).type = "PipelineError"
       THEN HTTPException(400, Val(exc[r]).msg)
       ELSE HTTPException(500, Val(exc[r]).msg)

\* trigger_pipeline after execute has ended: answer the request.
Respond(r) ==
  /\ pc[r] \in Finished
  /\ response[r] = None
  /\ response' = Set(response, r, Some(Answer(r)))
  /\ UNCHANGED <<repo, source, wiring, composer, subtitler, clock, pc, command,
                 status, frame, exc, caught, result, trace, raises>>

\* The steps of execute after its first line.
Step(r) ==
  \/ LogStarted(r)
  \/ ResolveArticle(r)
  \/ LogArticle(r)
  \/ BuildScript(r)
  \/ LogScript(r)
  \/ Synthesize(r)
  \/ LogAudio(r)
  \/ GenerateSubtitles(r)
  \/ LogSubtitles(r)
  \/ CreateImage(r)
  \/ LogBackground(r)
  \/ BuildMetadata(r)
  \/ LogMetadata(r)
  \/ Compose(r)
  \/ LogVideo(r)
  \/ Publish(r)
  \/ LogUploaded(r)
  \/ Complete(r)
  \/ Catch(r)
  \/ LogFailed(r)
  \/ NotifyError(r)
  \/ Reraise(r)

Next ==
  \E r \in Runs:
    \/ \E article_id \in CommandIds: Execute(r, article_id)
    \/ Step(r)
    \/ Respond(r)

Spec == Init /\ [][Next]_vars

\* ------------------------------------------------------------ the assembly
\* build_pipeline_use_case, lines 31-46: the composer is built, then the
\* publisher; an exception of a builder leaves the function and no
\* orchestrator is made.
BuildPipelineUseCase ==
  /\ wiring.state = "unbuilt"
  /\ \E hedra_ok, hedra_logged, youtube_ok, youtube_logged \in BOOLEAN :
       LET video == BuildVideoComposer(wiring.settings, hedra_ok, hedra_logged)
           publisher == IF video.value = None THEN Built(None, "", TRUE, <<>>)
                        ELSE BuildPublisher(wiring.settings, youtube_ok, youtube_logged)
           built == video.value # None /\ publisher.value # None
       IN wiring' =
            [wiring EXCEPT
               !.state = IF built THEN "built" ELSE "failed",
               !.video_composer = IF built THEN Val(video.value) ELSE "",
               !.publisher = IF built THEN Val(publisher.value) ELSE "",
               !.constructed = video.constructed \cup publisher.constructed,
               !.unavailable = video.unavailable \cup publisher.unavailable,
               !.events = video.events \o publisher.events]
  /\ UNCHANGED <<repo, source, composer, subtitler, response, clock, pc, command,
                 status, frame, exc, caught, result, trace, raises>>

InitAssembly ==
  /\ repo \in {None} \cup {Some(a) : a \in ArticleIds}
  /\ source = "EsaRestClient"
  /\ clock = 0
  /\ pc = [r \in Runs |-> "idle"]
  /\ command = [r \in Runs |-> None]
  /\ status = [r \in Runs |-> NoStatus]
  /\ frame = [r \in Runs |-> NoFrame]
  /\ exc = [r \in Runs |-> None]
  /\ caught = [r \in Runs |-> None]
  /\ result = [r \in Runs |-> None]
  /\ trace = [r \in Runs |-> <<>>]
  /\ raises = [r \in Runs |-> <<>>]
  /\ response = [r \in Runs |-> None]
  /\ wiring \in {Unbuilt([google_application_credentials |-> c, hedra_api_key |-> k]) :
                    c \in CredentialSettings, k \in ApiKeySettings}
  /\ composer = NoCompose
  /\ subtitler = NoSubtitles

NextAssembly == BuildPipelineUseCase \/ Next

SpecAssembly == InitAssembly /\ [][NextAssembly]_vars

\* ------------------------------------------- HedraVideoComposer.compose
\* HedraClient._poll_timeout and the values of _poll_interval, in clock ticks.
PollTimeout == 2
PollIntervals == {0, 1}
\* The monotonic clock is read up to this value.
MaxTime == PollTimeout + 2

AvatarSettings == {"", " ", "chr_avatar_primary"}
AudioPaths == {"audio/1.mp3"}
AssetIds == {"asset-1", "asset-2"}
GenerationIds == {"gen-1", "gen-2"}
\* payload["status"] and payload["download_url"] / payload["url"] of the
\* status endpoint.
StatusWords ==
  {"Completed", "complete", "succeeded", "processing", "FAILED", "error", "unknown"}
Urls == {None, Some(""), Some("https://hedra/video.mp4")}

\* str.strip() and str.lower() on the values above.
Strip(s) == IF s = " " THEN "" ELSE s
Lower(s) == IF s = "Completed" THEN "completed" ELSE IF s = "FAILED" THEN "failed" ELSE s
\* Python's `a or b`.
Or(a, b) == IF TruthyStr(a) THEN a ELSE b
Min(a, b) == IF a <= b THEN a ELSE b

HedraClientError(reason) == [type |-> "HedraClientError", reason |-> reason]
HedraTimeoutError == [type |-> "HedraTimeoutError", reason |-> "timed out"]

\* A call of a HedraClient method with its (up to two) arguments of interest.
ClientCall(op, a, b) == [op |-> op, a |-> a, b |-> b]

\* _target_path
TargetPath(article_id) == "videos/" \o Str(article_id) \o ".mp4"

\* compose(audio, ...) has been called with the given audio asset and settings.
StartCompose(article_id, audio_path, avatar_id, poll_interval) ==
  [NoCompose EXCEPT !.pc = "create_audio_asset", !.article_id = article_id,
                    !.audio_path = audio_path, !.avatar_id = avatar_id,
                    !.poll_interval = poll_interval]

\* The variables of the orchestrator while a collaborator is run on its own.
AtRest ==
  /\ repo = None
  /\ source = "FakeArticleRepo"
  /\ clock = 0
  /\ pc = [r \in Runs |-> "idle"]
  /\ command = [r \in Runs |-> None]
  /\ status = [r \in Runs |-> NoStatus]
  /\ frame = [r \in Runs |-> NoFrame]
  /\ exc = [r \in Runs |-> None]
  /\ caught = [r \in Runs |-> None]
  /\ result = [r \in Runs |-> None]
  /\ trace = [r \in Runs |-> <<>>]
  /\ raises = [r \in Runs |-> <<>>]
  /\ response = [r \in Runs |-> None]
  /\ wiring = TestWiring
UnchangedAtRest ==
  UNCHANGED <<repo, source, clock, pc, command, status, frame, exc, caught, result,
              trace, raises, response, wiring, subtitler>>

\* A client method raised: the exception leaves compose.
ComposeRaises(call, e) ==
  composer' = [composer EXCEPT !.pc = "raised", !.error = Some(e),
                               !.calls = Append(@, call)]

\* lines 20-27: the avatar check, then create_audio_asset.
CreateAudioAsset ==
  /\ composer.pc = "create_audio_asset"
  /\ IF Strip(composer.avatar_id) = ""
     THEN composer' = [composer EXCEPT !.pc = "raised",
                                       !.error = Some(HedraClientError("no avatar"))]
     ELSE LET call == ClientCall("create_audio_asset",
                                 "article-" \o Str(composer.article_id), "")
          IN \/ \E id \in AssetIds :
                  composer' = [composer EXCEPT !.pc = "upload_audio_asset",
                                               !.calls = Append(@, call),
                                               !.returns = @ + 1,
                                               !.audio_asset_id = id]
             \/ ComposeRaises(call, HedraClientError("create_audio_asset"))
  /\ UnchangedAtRest

\* Mutant of UploadAudioAsset: the upload goes to a fixed asset instead of
\* the asset just created.
UploadAudioAsset_FixedAsset ==
  /\ composer.pc = "upload_audio_asset"
  /\ LET call == ClientCall("upload_audio_asset", "asset-1", composer.audio_path)
     IN \/ composer' = [composer EXCEPT !.pc = "create_video_generation",
                                       !.calls = Append(@, call),
                                       !.returns = @ + 1]
        \/ ComposeRaises(call, HedraClientError("upload_audio_asset"))
  /\ UnchangedAtRest

\* line 28
UploadAudioAsset ==
  /\ composer.pc = "upload_audio_asset"
  /\ LET call == ClientCall("upload_audio_asset", composer.audio_asset_id,
                            composer.audio_path)
     IN \/ composer' = [composer EXCEPT !.pc = "create_video_generation",
                                       !.calls = Append(@, call),
                                       !.returns = @ + 1]
        \/ ComposeRaises(call, HedraClientError("upload_audio_asset"))
  /\ UnchangedAtRest

\* lines 30-38
CreateVideoGeneration ==
  /\ composer.pc = "create_video_generation"
  /\ LET call == ClientCall("create_video_generation", composer.audio_asset_id,
                            Strip(composer.avatar_id))
     IN \/ \E id \in GenerationIds :
             composer' = [composer EXCEPT !.pc = "wait_for_generation",
                                          !.calls = Append(@, call),
                                          !.returns = @ + 1,
                                          !.generation_id = id]
        \/ ComposeRaises(call, HedraClientError("create_video_generation"))
  /\ UnchangedAtRest

\* line 39 and hedra_client.py line 126: wait_for_generation is entered and
\* sets its deadline.
WaitForGeneration ==
  /\ composer.pc = "wait_for_generation"
  /\ composer' =
       [composer EXCEPT !.pc = "poll",
                        !.calls = Append(@, ClientCall("wait_for_generation",
                                                       composer.generation_id, "")),
                        !.deadline = composer.now + PollTimeout]
  /\ UnchangedAtRest

\* The four ways one iteration of the poll loop of wait_for_generation ends,
\* the status fetched at time `now` being (word, url).
Fetched(word, url) == Some([status |-> word, download_url |-> url])
\* line 131: return status
WaitReturns(word, url, now) ==
  [composer EXCEPT !.pc = "download_asset", !.now = now, !.returns = @ + 1,
                   !.fetched = Fetched(word, url), !.waited = "returned"]
\* line 133: raise HedraClientError
WaitFails(word, url, now) ==
  [composer EXCEPT !.pc = "raised", !.now = now, !.fetched = Fetched(word, url),
                   !.waited = "failed",
                   !.error = Some(HedraClientError("generation failed"))]
\* line 135: raise HedraTimeoutError
WaitTimesOut(word, url, now) ==
  [composer EXCEPT !.pc = "raised", !.now = now, !.fetched = Fetched(word, url),
                   !.waited = "timeout", !.error = Some(HedraTimeoutError)]
\* line 136: time.sleep(self._poll_interval), and round again
WaitSleeps(word, url, now) ==
  [composer EXCEPT !.now = Min(now + composer.poll_interval, MaxTime),
                   !.fetched = Fetched(word, url)]

IsCompleted(word) == Lower(word) \in {"completed", "complete", "succeeded"}
IsFailed(word) == Lower(word) \in {"failed", "error"}

\* Mutant of PollOutcome: a completed job is returned whether or not it
\* carries a download URL.
PollOutcome_AnyCompleted(word, url, now) ==
  IF IsCompleted(word) THEN WaitReturns(word, url, now)
  ELSE IF IsFailed(word) THEN WaitFails(word, url, now)
  ELSE IF now >= composer.deadline THEN WaitTimesOut(word, url, now)
  ELSE WaitSleeps(word, url, now)

\* Mutant of PollOutcome: the deadline is never looked at.
PollOutcome_NoDeadline(word, url, now) ==
  IF IsCompleted(word) /\ TruthyStr(url) THEN WaitReturns(word, url, now)
  ELSE IF IsFailed(word) THEN WaitFails(word, url, now)
  ELSE WaitSleeps(word, url, now)

\* lines 129-136: what one iteration does with the status it fetched.
PollOutcome(word, url, now) ==
  IF IsCompleted(word) /\ TruthyStr(url) THEN WaitReturns(word, url, now)
  ELSE IF IsFailed(word) THEN WaitFails(word, url, now)
  ELSE IF now >= composer.deadline THEN WaitTimesOut(word, url, now)
  ELSE WaitSleeps(word, url, now)

\* lines 127-136 with fetch_generation_status (138-153): one iteration of the
\* poll loop.  The request takes time: the clock has advanced when it returns.
PollGeneration ==
  /\ composer.pc = "poll"
  /\ LET now == Min(composer.now + 1, MaxTime)
     IN \/ \E word \in StatusWords, download_url, url \in Urls :
             composer' = PollOutcome(word, Or(download_url, url), now)
        \/ composer' = [composer EXCEPT
                          !.pc = "raised", !.now = now, !.waited = "fetch raised",
                          !.error = Some(HedraClientError("fetch_generation_status"))]
  /\ UnchangedAtRest

\* lines 40-47: the missing-URL check, download_asset, the VideoAsset returned.
DownloadAsset ==
  /\ composer.pc = "download_asset"
  /\ LET url == Val(composer.fetched).download_url
         target_path == TargetPath(composer.article_id)
         call == ClientCall("download_asset", url, target_path)
     IN IF ~TruthyStr(url)
        THEN composer' = [composer EXCEPT
                            !.pc = "raised",
                            !.error = Some(HedraClientError("no download URL"))]
        ELSE \/ composer' = [composer EXCEPT
                               !.pc = "returned",
                               !.calls = Append(@, call),
                               !.returns = @ + 1,
                               !.video = Some([article_id |-> composer.article_id,
                                               file_path |-> target_path])]
             \/ ComposeRaises(call, HedraClientError("download_asset"))
  /\ UnchangedAtRest

InitHedra ==
  /\ AtRest
  /\ subtitler = NoSubtitles
  /\ composer \in {StartCompose(a, p, v, i) :
                     a \in ArticleIds, p \in AudioPaths, v \in AvatarSettings,
                     i \in PollIntervals}

NextHedra ==
  \/ CreateAudioAsset
  \/ UploadAudioAsset
  \/ CreateVideoGeneration
  \/ WaitForGeneration
  \/ PollGeneration
  \/ DownloadAsset

SpecHedra == InitHedra /\ [][NextHedra]_vars /\ WF_vars(NextHedra)

\* ------------------------------- OpenAISubtitleService.generate_subtitles
MaxChunks == 2
MaxLines == 2

\* A segment of the transcription response: start and end in seconds (None
\* when the attribute is missing), and the text.
ChunkTimes == {None} \cup {Some(t) : t \in 0..2}
Chunks == [start : ChunkTimes, end : ChunkTimes, text : {"", " ", "a"}]
RECURSIVE SeqsUpTo(_, _)
SeqsUpTo(S, n) ==
  IF n = 0 THEN {<<>>}
  ELSE SeqsUpTo(S, n - 1)
         \cup {Append(q, x) : q \in {t \in SeqsUpTo(S, n - 1) : Len(t) = n - 1}, x \in S}
\* script.lines (their texts), and audio.duration_seconds with -1 for unknown.
ScriptLines == {[i \in 1..n |-> "line " \o Str(i)] : n \in 0..MaxLines}
Durations == {-1, 0, 7}
Max(a, b) == IF a >= b THEN a ELSE b

\* SubtitleSegment, its times counted in units of 1/unit seconds.
SubtitleSegment(start, end, text) ==
  [start_seconds |-> start, end_seconds |-> end, text |-> text]

\* lines 36-43: the segments taken from the transcription, chunks of empty
\* text left out.
RECURSIVE Transcribed(_)
Transcribed(chunks) ==
  IF chunks = <<>> THEN <<>>
  ELSE LET chunk == Head(chunks)
           start == IF chunk.start # None THEN Val(chunk.start) ELSE 0
           end == IF chunk.end # None THEN Val(chunk.end) ELSE start + 2
           text == Strip(chunk.text)
       IN (IF text = "" THEN <<>> ELSE <<SubtitleSegment(start, end, text)>>)
            \o Transcribed(Tail(chunks))

\* lines 47-59: equally spaced segments over the script's lines, in units of
\* 1/len(lines) seconds, so that the interval duration / len(lines) is exact.
EquallySpaced(lines, duration) ==
  LET texts == IF lines = <<>> THEN <<"raw text">> ELSE lines
      n == Len(texts)
      total == Max(duration, n * 3)
  IN [i \in 1..n |->
        SubtitleSegment((i - 1) * total, Min(i * total, n * total), texts[i])]

StartSubtitles(chunks, lines, duration) ==
  [NoSubtitles EXCEPT !.pc = "called", !.chunks = chunks, !.lines = lines,
                      !.duration = duration]

\* generate_subtitles, lines 28-70: transcribe, build the segments, write the
\* .srt file, return the SubtitleFile.
Transcribe ==
  /\ subtitler.pc = "called"
  /\ \/ LET transcribed == Transcribed(subtitler.chunks)
            fallback == transcribed = <<>>
        IN subtitler' =
             [subtitler EXCEPT
                !.pc = "returned",
                !.segments = IF fallback
                             THEN EquallySpaced(subtitler.lines, subtitler.duration)
                             ELSE transcribed,
                !.unit = IF fallback THEN Max(Len(subtitler.lines), 1) ELSE 1]
     \/ subtitler' = [subtitler EXCEPT !.pc = "raised"]
  /\ UNCHANGED <<repo, source, clock, pc, command, status, frame, exc, caught, result,
                 trace, raises, response, wiring, composer>>

InitSubtitles ==
  /\ AtRest
  /\ composer = NoCompose
  /\ subtitler \in {StartSubtitles(c, l, d) :
                      c \in SeqsUpTo(Chunks, MaxChunks), l \in ScriptLines,
                      d \in Durations}

NextSubtitles == Transcribe

SpecSubtitles == InitSubtitles /\ [][NextSubtitles]_vars

\* ------------------------------------------------------ the hosting endpoint
\* trigger_pipeline is a plain `def` endpoint: the server runs each request on
\* a thread of its pool, and get_pipeline_use_case (lru_cache) hands every
\* request the same orchestrator.  Two such threads are modelled.
Workers == {r \in Runs : r <= 2}

\* Mutant of Request: the status record is an attribute of the orchestrator,
\* shared by the requests in flight.
Request_SharedStatus(r, article_id) ==
  /\ pc[r] = "idle"
  /\ wiring.state = "built"
  /\ clock' = clock + 1
  /\ pc' = Set(pc, r, "log_started")
  /\ command' = Set(command, r, article_id)
  /\ status' = [q \in Runs |-> IF q = r \/ pc[q] \notin Finished \cup {"idle"}
                                THEN PipelineStatus("started", clock')
                                ELSE status[q]]
  /\ UNCHANGED <<repo, source, wiring, composer, subtitler, response, frame, exc,
                 caught, result, trace, raises>>

\* lines 55-60: a request arrives and its thread enters execute (line 66).
Request(r, article_id) ==
  /\ pc[r] = "idle"
  /\ wiring.state = "built"
  /\ clock' = clock + 1
  /\ pc' = Set(pc, r, "log_started")
  /\ command' = Set(command, r, article_id)
  /\ status' = Set(status, r, PipelineStatus("started", clock'))
  /\ UNCHANGED <<repo, source, wiring, composer, subtitler, response, frame, exc,
                 caught, result, trace, raises>>

InitHost ==
  /\ Init
  /\ repo = Some(MaxArticleId)
  /\ source = "EsaRestClient"

NextHost ==
  \E r \in Workers:
    \/ \E article_id \in {Some(MaxArticleId)}: Request(r, article_id)
    \/ Step(r)
    \/ Respond(r)

SpecHost == InitHost /\ [][NextHost]_vars


\* ===================================================================
\* The claims
\* ===================================================================
\* The frame r is a call of execute that has begun and is not yet released.
InCall(r) == pc[r] \notin {"idle", "released"}
Label(r) == status[r].status

LabelOrder ==
  <<"started", "article_ready", "script_ready", "audio_ready", "subtitles_ready",
    "background_ready", "metadata_ready", "video_ready">>
ReadyLabels == {LabelOrder[i] : i \in 1..Len(LabelOrder)}
Terminal == {"uploaded", "video_saved", "failed"}

\* Position of a label in started, ..., video_ready, {uploaded | video_saved}.
Rank(l) ==
  IF l \in ReadyLabels THEN CHOOSE i \in 1..Len(LabelOrder) : LabelOrder[i] = l
  ELSE IF l \in {"uploaded", "video_saved"} THEN Len(LabelOrder) + 1
  ELSE Len(LabelOrder) + 2

StageOps ==
  {"build_script", "synthesize", "generate_subtitles", "create_image",
   "build_metadata", "compose", "publish"}
StageErrors == {CollaboratorError(op) : op \in StageOps}
Raised(r, errs) == \E i \in 1..Len(raises[r]) : raises[r][i] \in errs
InNotes(r, m) == \E i \in 1..Len(status[r].notes) : status[r].notes[i] = m

\* The run of frame r in which every call before the return succeeded.
ResultOf(r) == Val(result[r])

\* C1 (as claimed): a returned result is labelled `uploaded` whenever the
\* publisher returned a non-null id and `video_saved` whenever it returned
\* null.
C1_Original ==
  \A r \in Runs : pc[r] = "returned" =>
    /\ frame[r].youtube_video_id # None => ResultOf(r).status.status = "uploaded"
    /\ frame[r].youtube_video_id = None => ResultOf(r).status.status = "video_saved"

\* C1 (amended): a returned result is labelled `uploaded` whenever the
\* publisher returned a non-empty id and `video_saved` whenever it returned
\* null or the empty string; it never carries `started`, a `*_ready` label or
\* `failed`.
C1_ReturnedLabel ==
  \A r \in Runs : pc[r] = "returned" =>
    /\ result[r] # None
    /\ TruthyStr(frame[r].youtube_video_id) => ResultOf(r).status.status = "uploaded"
    /\ ~TruthyStr(frame[r].youtube_video_id) => ResultOf(r).status.status = "video_saved"
    /\ ResultOf(r).status.status \in {"uploaded", "video_saved"}
    /\ ResultOf(r).status.status \notin ReadyLabels

\* C1 witness: a run returned after the publisher gave back the empty string.
C1_Witness ==
  \E r \in Runs :
    /\ pc[r] = "returned"
    /\ frame[r].youtube_video_id = Some("")
    /\ ResultOf(r).status.status = "video_saved"

\* C2: within one call the label only steps to the next label of the sequence
\* or jumps to `failed`; nothing follows `failed`.
C2_NoRegress ==
  [][\A r \in Runs :
       (InCall(r) /\ pc'[r] # "released" /\ status'[r].status # Label(r)) =>
         \/ status'[r].status = "failed"
         \/ /\ Label(r) # "failed"
            /\ Rank(status'[r].status) = Rank(Label(r)) + 1]_vars

\* C2 witness: a run that went through every label up to `uploaded` and then
\* jumped to `failed`.
C2_Witness ==
  \E r \in Runs :
    /\ Label(r) = "failed"
    /\ TruthyStr(frame[r].youtube_video_id)
    /\ pc[r] = "raised"

\* C3 (as claimed): once the label is uploaded, video_saved or failed, no later
\* step of the same call changes it.
C3_Original ==
  [][\A r \in Runs :
       (InCall(r) /\ pc'[r] # "released" /\ Label(r) \in Terminal) =>
         status'[r].status = Label(r)]_vars

\* C4: if a stage collaborator called after article resolution raised, then
\* when execute has finished the label is `failed`, the completion timestamp
\* is set and the message of that exception is in the notes.
C4_StageFailure ==
  \A r \in Runs : pc[r] \in Finished =>
    \A i \in 1..Len(raises[r]) : raises[r][i] \in StageErrors =>
      /\ pc[r] = "raised"
      /\ Label(r) = "failed"
      /\ status[r].completed_at # None
      /\ InNotes(r, raises[r][i].msg)

\* C4 witness: the composer raised and execute has finished.
C4_Witness ==
  \E r \in Runs :
    /\ pc[r] = "raised"
    /\ raises[r] = <<CollaboratorError("compose")>>

\* C5 (as claimed): whenever execute ends by raising, the exception that
\* reaches the caller is the first exception raised in the run.
C5_Original ==
  \A r \in Runs : pc[r] = "raised" => Val(exc[r]) = raises[r][1]

\* C6 (as claimed): if article resolution yields nothing, execute raises the
\* PipelineError of step "article", calls no stage collaborator, and emits
\* exactly one pipeline_failed event and one failure notification.
C6_Original ==
  \A r \in Runs :
    (pc[r] = "raised" /\ Raised(r, {PipelineError("article", "article not found")})) =>
      /\ Val(exc[r]).type = "PipelineError"
      /\ Val(exc[r]).step = "article"
      /\ \A op \in StageOps : CountOp(r, op) = 0
      /\ CountEvent(r, "pipeline_failed") = 1
      /\ Len(Notifications(r)) = 1
      /\ Notifications(r)[1].arg = "error"

\* C7 (as claimed): in every run the notifier is called exactly once: an info
\* notification with the final label when the run returns, an error
\* notification with the failure message when it raises.
C7_Original ==
  \A r \in Runs : pc[r] \in Finished =>
    /\ Len(Notifications(r)) = 1
    /\ pc[r] = "returned" =>
         Notifications(r)[1] = Call("notify", "info", Label(r), 0)
    /\ pc[r] = "raised" =>
         Notifications(r)[1] = Call("notify", "error", raises[r][1].msg, 0)

\* The stage-completion events, in stage order.
StageEventOrder ==
  <<"article_selected", "script_generated", "audio_generated",
    "subtitles_generated", "background_generated", "metadata_generated",
    "video_composed", "video_uploaded">>
StageEventSet == {StageEventOrder[i] : i \in 1..Len(StageEventOrder)}

RECURSIVE SelectEvents(_, _)
SelectEvents(s, keep) ==
  IF s = <<>> THEN <<>>
  ELSE IF Head(s) \in keep THEN <<Head(s)>> \o SelectEvents(Tail(s), keep)
       ELSE SelectEvents(Tail(s), keep)

\* The stage-completion events frame r logged, in the order logged.
StageEvents(r) == SelectEvents(Events(r), StageEventSet)

\* The stages of frame r that completed: the stage calls made, less those
\* that raised or resolved no article.
AllStageOps == StageOps \cup {"by_id", "latest"}
StagesCompleted(r) ==
  Len(SelectOp(trace[r], AllStageOps))
    - Cardinality({i \in 1..Len(raises[r]) :
         raises[r][i] \in {CollaboratorError(op) : op \in AllStageOps}
                          \cup {PipelineError("article", "article not found"),
                                HTTPError("404")}})

\* C8 (as claimed): when the run has ended, the stage-completion events the
\* logger received are exactly the ordered list of events of the stages that
\* completed, the publish stage included; 8 of them in a successful run with
\* a publish id.
C8_Original ==
  \A r \in Runs : pc[r] \in Finished =>
    /\ StageEvents(r) = SubSeq(StageEventOrder, 1, StagesCompleted(r))
    /\ (pc[r] = "returned" /\ frame[r].youtube_video_id = Some("youtube-video-id"))
         => Len(StageEvents(r)) = Len(StageEventOrder)

\* The event logged after a stage operation.
EventOf(op) ==
  CASE op \in {"by_id", "latest"} -> "article_selected"
    [] op = "build_script" -> "script_generated"
    [] op = "synthesize" -> "audio_generated"
    [] op = "generate_subtitles" -> "subtitles_generated"
    [] op = "create_image" -> "background_generated"
    [] op = "build_metadata" -> "metadata_generated"
    [] op = "compose" -> "video_composed"
    [] op = "publish" -> "video_uploaded"

\* C9 (as claimed): the call that follows a stage call that succeeded is the
\* log call of that stage's event, the publish stage included: a run that
\* ended `uploaded` or `video_saved` logged its publish-stage event.
C9_Original ==
  \A r \in Runs :
    /\ \A i \in 1..(Len(trace[r]) - 1) :
         trace[r][i].op \in AllStageOps =>
           /\ trace[r][i + 1].op = "log"
           /\ trace[r][i + 1].arg \in {EventOf(trace[r][i].op), "pipeline_failed"}
    /\ (pc[r] = "returned" /\ Label(r) = "uploaded") =>
         CountEvent(r, "video_uploaded") = 1
    /\ (pc[r] = "returned" /\ Label(r) = "video_saved") =>
         \E i \in 1..Len(trace[r]) :
           trace[r][i].op = "log" /\ trace[r][i].arg \in {"video_saved", "video_uploaded"}

\* C10 (as claimed): before an exception raised by a collaborator call reaches
\* the caller, the status is `failed`, a pipeline_failed event has been logged
\* and an error notification has been sent.
C10_Original ==
  \A r \in Runs : pc[r] = "raised" =>
    /\ Label(r) = "failed"
    /\ CountEvent(r, "pipeline_failed") >= 1
    /\ \E i \in 1..Len(Notifications(r)) : Notifications(r)[i].arg = "error"


\* The failure path of frame r was entered: the except clause bound an
\* exception.
OnFailurePath(r) == caught[r] # None

\* Position of the first call of trace[r] with this op and arg; 0 if none.
FirstCall(r, op, arg) ==
  IF \E i \in 1..Len(trace[r]) : trace[r][i].op = op /\ trace[r][i].arg = arg
  THEN CHOOSE i \in 1..Len(trace[r]) :
         /\ trace[r][i].op = op /\ trace[r][i].arg = arg
         /\ \A j \in 1..(i - 1) : ~(trace[r][j].op = op /\ trace[r][j].arg = arg)
  ELSE 0

\* C11 (as claimed): when an exception leaves execute by the failure path, the
\* status was set to `failed`, stamped and annotated, then pipeline_failed was
\* logged, then the error notification was sent, and what leaves is the
\* exception that was caught.
C11_Original ==
  \A r \in Runs : (pc[r] = "raised" /\ OnFailurePath(r)) =>
    /\ Label(r) = "failed"
    /\ status[r].completed_at # None
    /\ InNotes(r, Val(caught[r]).msg)
    /\ FirstCall(r, "log", "pipeline_failed") > 0
    /\ FirstCall(r, "notify", "error") > FirstCall(r, "log", "pipeline_failed")
    /\ exc[r] = caught[r]

\* The stage calls of frame r, in the order made (the article lookup first).
StageCalls(r) ==
  [i \in 1..Len(SelectOp(trace[r], AllStageOps)) |->
     SelectOp(trace[r], AllStageOps)[i].op]

\* The fixed order of the stages, either lookup standing for article
\* resolution.
StageOrder ==
  <<"resolve", "build_script", "synthesize", "generate_subtitles",
    "create_image", "build_metadata", "compose", "publish">>
StageName(op) == IF op \in {"by_id", "latest"} THEN "resolve" ELSE op

\* C12: the stage collaborators invoked are a prefix of the fixed order, and
\* when stage k+1 is invoked no stage has raised and every earlier stage has
\* returned (one stage at most is left without a result: the last invoked).
C12_StageOrder ==
  \A r \in Runs :
    /\ Len(StageCalls(r)) <= Len(StageOrder)
    /\ \A i \in 1..Len(StageCalls(r)) : StageName(StageCalls(r)[i]) = StageOrder[i]
    /\ Len(StageCalls(r)) - StagesCompleted(r) \in {0, 1}
    /\ Len(StageCalls(r)) > StagesCompleted(r) =>
         pc[r] \in {"except", "log_failed", "notify_error", "reraise", "raised"}

\* C12 witness: the publisher, the last stage, was invoked and raised.
C12_Witness ==
  \E r \in Runs :
    /\ Len(StageCalls(r)) = Len(StageOrder)
    /\ raises[r] = <<CollaboratorError("publish")>>

\* C13: within one call each stage operation is invoked at most once (the
\* article lookup once, by either method), exactly once each in a run that
\* returns, and no stage is invoked after a stage raised.
C13_NoRetry ==
  \A r \in Runs :
    /\ \A op \in StageOps : CountOp(r, op) <= 1
    /\ CountOp(r, "by_id") + CountOp(r, "latest") <= 1
    /\ pc[r] = "returned" =>
         /\ \A op \in StageOps : CountOp(r, op) = 1
         /\ CountOp(r, "by_id") + CountOp(r, "latest") = 1
    /\ \A i \in 1..Len(trace[r]) :
         (trace[r][i].op \in AllStageOps /\ i < Len(trace[r])
            /\ trace[r][i + 1].op = "log" /\ trace[r][i + 1].arg = "pipeline_failed")
           => \A j \in (i + 1)..Len(trace[r]) : trace[r][j].op \notin AllStageOps

\* C13 witness: a run returned, and a run in which the script stage raised
\* went through the whole failure path.
C13_Witness ==
  \E r \in Runs :
    /\ pc[r] = "raised"
    /\ raises[r] = <<CollaboratorError("build_script")>>
    /\ CountOp(r, "build_script") = 1


\* The article lookup of frame r has been made.
Resolved(r) == CountOp(r, "by_id") + CountOp(r, "latest") > 0

\* C14 (as claimed): a command with an explicit identifier, whatever integer,
\* leads to exactly one by_id call with that identifier and no latest call; a
\* command without identifier to exactly one latest call and no by_id call.
C14_Original ==
  \A r \in Runs : Resolved(r) =>
    /\ command[r] # None =>
         /\ SelectOp(trace[r], {"by_id"}) = <<Call("by_id", "", "", Val(command[r]))>>
         /\ CountOp(r, "latest") = 0
    /\ command[r] = None =>
         /\ CountOp(r, "latest") = 1
         /\ CountOp(r, "by_id") = 0

\* The explicit identifier of frame r matched no article.
IdNotFound(r) ==
  /\ CountOp(r, "by_id") = 1
  /\ ById(Val(command[r])) = None
\* The latest lookup of frame r found the article source empty.
LatestEmpty(r) ==
  /\ CountOp(r, "latest") = 1
  /\ Latest = None

\* C15 (as claimed): an explicit identifier that matches no article and an
\* empty latest both end the run with the PipelineError of step "article",
\* with the shipped article source as with any other, as long as the lookup
\* itself got an answer (no failure of the transport).
C15_Original ==
  \A r \in Runs :
    (pc[r] \in Finished /\ (IdNotFound(r) \/ LatestEmpty(r))
       /\ ~Raised(r, {CollaboratorError("by_id"), CollaboratorError("latest")})) =>
      Raised(r, {PipelineError("article", "article not found")})

\* C16 (as claimed): a returned result bundles the final status record, the
\* composer's video, the metadata generator's metadata and the publisher's
\* id; the id is null whenever the label is `video_saved` and non-null
\* whenever it is `uploaded`.
C16_Original ==
  \A r \in Runs : pc[r] = "returned" =>
    /\ ResultOf(r).status = status[r]
    /\ ResultOf(r).video = Some(Artifact("video", Val(frame[r].article)))
    /\ ResultOf(r).metadata = Some(Artifact("metadata", Val(frame[r].article)))
    /\ ResultOf(r).youtube_video_id = frame[r].youtube_video_id
    /\ Label(r) = "video_saved" => ResultOf(r).youtube_video_id = None
    /\ Label(r) = "uploaded" => ResultOf(r).youtube_video_id # None

\* C16 (amended): a returned result bundles the final status record, the
\* composer's video, the metadata generator's metadata and the publisher's
\* id; the id is null or the empty string whenever the label is `video_saved`
\* and a non-empty string whenever it is `uploaded`.
C16_ResultBundle ==
  \A r \in Runs : pc[r] = "returned" =>
    /\ ResultOf(r).status = status[r]
    /\ ResultOf(r).video = Some(Artifact("video", Val(frame[r].article)))
    /\ ResultOf(r).metadata = Some(Artifact("metadata", Val(frame[r].article)))
    /\ ResultOf(r).youtube_video_id = frame[r].youtube_video_id
    /\ Label(r) = "video_saved" => ~TruthyStr(ResultOf(r).youtube_video_id)
    /\ Label(r) = "uploaded" => TruthyStr(ResultOf(r).youtube_video_id)

\* C16 witness: a returned result labelled `uploaded` carrying the id.
C16_Witness ==
  \E r \in Runs :
    /\ pc[r] = "returned"
    /\ ResultOf(r).status.status = "uploaded"
    /\ ResultOf(r).youtube_video_id = Some("youtube-video-id")


\* The publisher of frame r returned an absent id without raising.
PublishedNothing(r) ==
  /\ CountOp(r, "publish") = 1
  /\ ~Raised(r, {CollaboratorError("publish")})
  /\ frame[r].youtube_video_id = None

\* C17 (as claimed): when the publisher returned an absent id without
\* raising, the run ends `video_saved`: execute returns a result, no
\* pipeline_failed event is logged, no error notification is sent and the
\* completion timestamp is set.
C17_Original ==
  \A r \in Runs : (pc[r] \in Finished /\ PublishedNothing(r)) =>
    /\ pc[r] = "returned"
    /\ Label(r) = "video_saved"
    /\ CountEvent(r, "pipeline_failed") = 0
    /\ \A i \in 1..Len(Notifications(r)) : Notifications(r)[i].arg # "error"
    /\ status[r].completed_at # None

\* The first exception of frame r was raised while the label was not
\* terminal: by any call but the video_uploaded log call and the success
\* notification.
RaisedBeforeTerminal(r) ==
  /\ raises[r] # <<>>
  /\ raises[r][1] \notin {CollaboratorError("log video_uploaded"),
                          CollaboratorError("notify info")}

\* C18 (as claimed): from every non-terminal label an exception in the next
\* collaborator call moves the label to `failed` (set by the time the except
\* clause has run), and after a stage raised no stage collaborator is invoked
\* and no success notification is sent.
C18_Original ==
  \A r \in Runs :
    /\ (RaisedBeforeTerminal(r) /\ pc[r] # "except") => Label(r) = "failed"
    /\ Raised(r, StageErrors \cup {CollaboratorError("by_id"),
                                   CollaboratorError("latest"), HTTPError("404"),
                                   PipelineError("article", "article not found")}) =>
         /\ \A i \in 1..Len(Notifications(r)) : Notifications(r)[i].arg # "info"
         /\ \A i \in 1..Len(trace[r]) : \A j \in (i + 1)..Len(trace[r]) :
              (trace[r][i].op = "log" /\ trace[r][i].arg = "pipeline_failed")
                => trace[r][j].op \notin AllStageOps

\* C19: on the failure path the note appended to the status, the error field
\* of the pipeline_failed event and the error of the error notification are
\* all the message of the exception that was raised.
C19_SameText ==
  \A r \in Runs : (InCall(r) /\ OnFailurePath(r)) =>
    /\ status[r].notes = <<raises[r][1].msg>>
    /\ \A i \in 1..Len(trace[r]) :
         /\ (trace[r][i].op = "log" /\ trace[r][i].arg = "pipeline_failed")
              => trace[r][i].info = raises[r][1].msg
         /\ (trace[r][i].op = "notify" /\ trace[r][i].arg = "error")
              => trace[r][i].info = raises[r][1].msg

\* C19 witness: the failure of the audio stage was noted, logged and notified.
C19_Witness ==
  \E r \in Runs :
    /\ pc[r] = "raised"
    /\ raises[r] = <<CollaboratorError("synthesize")>>
    /\ CountEvent(r, "pipeline_failed") = 1
    /\ Len(Notifications(r)) = 1

\* C20: every call of execute on the reused orchestrator creates a fresh
\* status record (label `started`, no notes, no completion timestamp, started
\* now) and no locals, and a later call that returns has resolved the article
\* and invoked every stage itself.
C20_FreshRun ==
  \A r \in Runs :
    /\ pc[r] = "log_started" =>
         /\ status[r] = PipelineStatus("started", clock)
         /\ frame[r] = NoFrame
         /\ trace[r] = <<>>
    /\ pc[r] = "returned" =>
         /\ \A op \in StageOps : CountOp(r, op) = 1
         /\ CountOp(r, "by_id") + CountOp(r, "latest") = 1
         /\ status[r].notes = <<>>

\* C20 witness: a second call on the same orchestrator returned.
C20_Witness ==
  \E r \in Runs : r > 1 /\ pc[r] = "returned"

\* C21: trigger_pipeline answers 400 exactly when the exception that left
\* execute is a PipelineError, 500 for every other exception that left it, and
\* when execute returned, 200 with the result's label, timestamps, notes,
\* video path and publish id.
C21_Structural ==
  \A r \in Runs : response[r] # None =>
    /\ pc[r] \in Finished
    /\ (pc[r] = "raised" /\ Val(exc[r]).type = "PipelineError")
         => Val(response[r]) = HTTPException(400, Val(exc[r]).msg)
    /\ (pc[r] = "raised" /\ Val(exc[r]).type # "PipelineError")
         => Val(response[r]) = HTTPException(500, Val(exc[r]).msg)
    /\ Val(response[r]).status_code = 400
         => (pc[r] = "raised" /\ Val(exc[r]) = PipelineError("article", "article not found"))
    /\ pc[r] = "returned" =>
         /\ Val(response[r]).status_code = 200
         /\ Val(response[r]).status = Label(r)
         /\ Val(response[r]).started_at = status[r].started_at
         /\ Val(response[r]).completed_at = status[r].completed_at
         /\ Val(response[r]).notes = status[r].notes
         /\ Val(response[r]).video_path = Some(FilePath(Val(frame[r].video)))
         /\ Val(response[r]).youtube_video_id = frame[r].youtube_video_id

\* C21 witness: a request was answered 400 after no article was found.
C21_Witness ==
  \E r \in Runs :
    /\ response[r] # None
    /\ Val(response[r]).status_code = 400
    /\ Val(exc[r]).type = "PipelineError"

\* The call of frame r is in flight: begun and not yet returned or raised.
InFlight(r) == pc[r] \notin {"idle", "released"} \cup Finished

\* C22 (as claimed): the endpoint and the cached orchestrator never let two
\* execute calls be in flight on the orchestrator at the same time.
C22_Original ==
  \A r, q \in Runs : (r # q) => ~(InFlight(r) /\ InFlight(q))

ProtocolOrder ==
  <<"create_audio_asset", "upload_audio_asset", "create_video_generation",
    "wait_for_generation", "download_asset">>

\* C24: the client calls compose has made are a prefix of the protocol, at
\* most the last of them has not returned, and each carries what the claim
\* says: the name article-<id>; the asset id just returned and the audio path;
\* that asset id and the configured avatar; the generation id just returned;
\* the target path, which is the file path of the VideoAsset returned.
C24_Protocol ==
  LET calls == composer.calls
  IN /\ Len(calls) <= Len(ProtocolOrder)
     /\ \A i \in 1..Len(calls) : calls[i].op = ProtocolOrder[i]
     /\ Len(calls) - composer.returns \in {0, 1}
     /\ Len(calls) > composer.returns => composer.pc \in {"poll", "raised"}
     /\ Len(calls) >= 1 => calls[1].a = "article-" \o Str(composer.article_id)
     /\ Len(calls) >= 2 =>
          /\ composer.audio_asset_id \in AssetIds
          /\ calls[2].a = composer.audio_asset_id
          /\ calls[2].b = composer.audio_path
     /\ Len(calls) >= 3 =>
          /\ calls[3].a = composer.audio_asset_id
          /\ calls[3].b = "chr_avatar_primary"
     /\ Len(calls) >= 4 =>
          /\ composer.generation_id \in GenerationIds
          /\ calls[4].a = composer.generation_id
     /\ Len(calls) >= 5 =>
          /\ composer.waited = "returned"
          /\ calls[5].a = Val(composer.fetched).download_url
     /\ composer.pc = "returned" =>
          /\ Len(calls) = Len(ProtocolOrder)
          /\ composer.returns = Len(ProtocolOrder)
          /\ Val(composer.video).file_path = calls[5].b
          /\ Val(composer.video).file_path =
               "videos/" \o Str(composer.article_id) \o ".mp4"

\* C24 witness: compose returned the video after the whole protocol, the
\* asset created being the second one.
C24_Witness ==
  /\ composer.pc = "returned"
  /\ composer.audio_asset_id = "asset-2"
  /\ composer.video # None

\* The job of the status last fetched is neither completed with a URL nor
\* failed.
Unfinished ==
  /\ ~(IsCompleted(Val(composer.fetched).status)
         /\ TruthyStr(Val(composer.fetched).download_url))
  /\ ~IsFailed(Val(composer.fetched).status)

\* C25: when every status fetch returns and takes time, wait_for_generation
\* ends: by returning a status of a completed job with a download URL, by
\* raising HedraClientError for a job reported failed, or by raising
\* HedraTimeoutError at or after the deadline with the job unfinished; the
\* poll loop is always left.
C25_BoundedPoll ==
  /\ [](/\ composer.waited = "returned" =>
             /\ IsCompleted(Val(composer.fetched).status)
             /\ TruthyStr(Val(composer.fetched).download_url)
             /\ composer.error \notin {Some(HedraTimeoutError),
                                        Some(HedraClientError("generation failed"))}
        /\ composer.waited = "failed" =>
             /\ IsFailed(Val(composer.fetched).status)
             /\ composer.error = Some(HedraClientError("generation failed"))
        /\ composer.waited = "timeout" =>
             /\ composer.now >= composer.deadline
             /\ Unfinished
             /\ composer.error = Some(HedraTimeoutError)
        /\ composer.pc = "poll" => composer.now <= composer.deadline)
  /\ (composer.pc = "poll") ~> (composer.pc # "poll")

\* C25 witness: the poll ran into the deadline with the job still processing.
C25_Witness ==
  /\ composer.waited = "timeout"
  /\ Val(composer.fetched).status = "processing"
  /\ composer.now >= composer.deadline

\* C30: wait_for_generation returns only a status with a non-empty download
\* URL; while a job is reported completed without URL the loop polls again or
\* ends by the deadline (or by a fetch that raised); download_asset is only called with a non-empty URL
\* and compose never raises its own missing-URL error.
C30_NeverWithoutUrl ==
  /\ composer.waited = "returned" => TruthyStr(Val(composer.fetched).download_url)
  /\ (composer.fetched # None /\ IsCompleted(Val(composer.fetched).status)
        /\ ~TruthyStr(Val(composer.fetched).download_url))
       => (composer.pc = "poll" \/ composer.waited \in {"timeout", "fetch raised"})
  /\ \A i \in 1..Len(composer.calls) :
       composer.calls[i].op = "download_asset" => TruthyStr(composer.calls[i].a)
  /\ composer.error # Some(HedraClientError("no download URL"))

\* C30 witness: a job reported completed with an empty URL was polled again
\* and the wait then returned a status with a URL.
C30_Witness ==
  /\ composer.waited = "returned"
  /\ composer.now >= 2
  /\ composer.pc = "returned"

\* C26 (as claimed): every SubtitleFile returned, from the transcription as
\* from the fallback, has start <= end in each segment and each segment
\* starting no earlier than the previous one ended.
C26_Original ==
  subtitler.pc = "returned" =>
    /\ \A i \in 1..Len(subtitler.segments) :
         subtitler.segments[i].start_seconds <= subtitler.segments[i].end_seconds
    /\ \A i \in 2..Len(subtitler.segments) :
         subtitler.segments[i].start_seconds >= subtitler.segments[i - 1].end_seconds

\* The label the stages completed by frame r stand for: `failed` once the
\* except clause ran; else the label of the last stage that returned.
ExpectedLabel(r) ==
  IF caught[r] # None THEN "failed"
  ELSE IF StagesCompleted(r) < Len(StageOrder) THEN LabelOrder[StagesCompleted(r) + 1]
  ELSE PublishLabel(frame[r].youtube_video_id)

\* C27: the label is `started` until the first collaborator call; until the
\* run fails it is the label of the last stage whose collaborator returned,
\* never that of a stage that did not return; and at the moment the k-th stage
\* collaborator is called the label is the one of stage k-1.
C27_LabelNamesLastStage ==
  /\ [](\A r \in Runs : InCall(r) =>
          /\ trace[r] = <<>> => Label(r) = "started"
          /\ Label(r) = ExpectedLabel(r))
  /\ [][\A r \in Runs :
          (InCall(r) /\ pc'[r] # "released"
             /\ Len(SelectOp(trace'[r], AllStageOps))
                  = Len(SelectOp(trace[r], AllStageOps)) + 1)
            => Label(r) = LabelOrder[Len(SelectOp(trace[r], AllStageOps)) + 1]]_vars

\* C27 witness: the composer was called and raised; the label is still the
\* one of the metadata stage.
C27_Witness ==
  \E r \in Runs :
    /\ pc[r] = "except"
    /\ raises[r] = <<CollaboratorError("compose")>>
    /\ Label(r) = "metadata_ready"

\* C28: the completion timestamp is absent while the label is `started` or a
\* `*_ready` label, set in every result returned and in every run that ended
\* `failed`; and while the run stays on the success path (the except clause
\* is not entered) a timestamp that is set is not changed.
C28_CompletionStamp ==
  /\ [](\A r \in Runs : InCall(r) =>
          /\ Label(r) \in ReadyLabels => status[r].completed_at = None
          /\ pc[r] = "returned" =>
               /\ ResultOf(r).status.completed_at # None
               /\ Val(ResultOf(r).status.completed_at) > status[r].started_at
          /\ (pc[r] \in Finished /\ Label(r) = "failed") =>
               status[r].completed_at # None)
  /\ [][\A r \in Runs :
          (InCall(r) /\ pc'[r] # "released" /\ status[r].completed_at # None
             /\ caught'[r] = None)
            => status'[r].completed_at = status[r].completed_at]_vars

\* C28 witness: a run returned, its result stamped; the request was answered.
C28_Witness ==
  \E r \in Runs :
    /\ pc[r] = "returned"
    /\ ResultOf(r).status.completed_at # None
    /\ response[r] # None

\* The stage-completion events among the calls s, in the order logged.
RECURSIVE LoggedStageEvents(_)
LoggedStageEvents(s) ==
  IF s = <<>> THEN <<>>
  ELSE (IF Head(s).op = "log" /\ Head(s).arg \in StageEventSet
        THEN <<Head(s).arg>> ELSE <<>>) \o LoggedStageEvents(Tail(s))

\* The success notification of frame r has been attempted (line 105).
NotifiedInfo(r) ==
  \E i \in 1..Len(Notifications(r)) : Notifications(r)[i].arg = "info"

\* C29: with two execute calls interleaved on the orchestrator, the status
\* record of each run is what the run's own calls make it: the label of its own
\* last stage (or `failed` once its own except clause ran), notes holding its
\* own exception's message only, a completion timestamp set exactly when its
\* own line 104 or 109 ran; and the stage events it logged are in stage order.
C29_Isolated ==
  \A r \in Runs : InCall(r) =>
    /\ Label(r) = ExpectedLabel(r)
    /\ status[r].notes = IF caught[r] # None THEN <<Val(caught[r]).msg>> ELSE <<>>
    /\ caught[r] # None => Val(caught[r]) = raises[r][1]
    /\ status[r].completed_at # None <=> (caught[r] # None \/ NotifiedInfo(r))
    /\ status[r].completed_at # None => Val(status[r].completed_at) > status[r].started_at
    /\ LET logged == LoggedStageEvents(trace[r])
       IN logged = SubSeq(StageEventOrder, 1, Len(logged))

\* C29 witness: two runs overlapped in time; one ended `failed`, the other
\* returned.
C29_Witness ==
  \E r, q \in Runs :
    /\ r # q
    /\ pc[r] = "raised" /\ Label(r) = "failed"
    /\ pc[q] = "returned"
    /\ status[q].started_at < Val(status[r].completed_at)
    /\ status[r].started_at < Val(status[q].completed_at)
====
